---- MODULE Spec2Model ----
(***************************************************************************)
(* Model of the startup-validator research backend:                        *)
(*   src/agent/graph.js      the eight-stage LangGraph pipeline            *)
(*   src/services/twitter.js the shared Twitter rate limiter (throttle)    *)
(*   src/index.js            the SSE / WebSocket request handlers          *)
(*                                                                         *)
(* Conventions.  JavaScript values are records tagged by a field t.        *)
(* Strings are TLA+ strings.  A list of tweets, trends or users whose      *)
(* elements no modelled code inspects is represented by its length.        *)
(* An LLM response text is a string over a small alphabet of JSON tokens:  *)
(*   "{" "}"  braces          "w"  a word of prose                         *)
(*   "n"      the literal null                                             *)
(*   "7"      a number literal                                             *)
(*   "p"      an object member  "key": "value" (with its comma)            *)
(*   "s"      the member "score": 85                                       *)
(*   "z"      the member "score": 0                                        *)
(*   "b"      the member "recommendation": "build"                         *)
(*   "r"      the member "recommendation": 5   (not a string)              *)
(***************************************************************************)
EXTENDS Integers, Sequences, FiniteSets, TLC

VARIABLES
  \* ---- one research request (src/index.js, src/agent/graph.js) ----
  req,          \* the request: [transport, idea (raw), description]
  pc,           \* handler position: request, rejected, invoke, complete, error,
                \* crashed
                \* (idle when no request is modelled)
  cur,          \* the stage whose body is executing, or "none"
  entered,      \* stage names in the order LangGraph entered them
  state,        \* the LangGraph run state (Annotation.Root)
  prefetch,     \* tavilyPrefetchPromise: null, pending, fulfilled, rejected
  tavilyRuns,   \* number of runSingleTavilyResearch invocations
  events,       \* the events the stages and the handler passed to emit, in order
  taskEvents,   \* the events the web-research task passed to emit, each with
                \* the handler position at that moment
  delivered,    \* the terminal events written to the transport
  open,         \* the transport is open (res not ended / ws OPEN)
  hung,         \* the LLM call awaited by the running stage never settles
  extOk,        \* some external call of this run has succeeded
  extFail,      \* some external call of this run has failed
  unhandled,    \* the prefetch promise rejected while nothing awaited it
  \* ---- rate limiter (src/services/twitter.js) ----
  now,          \* Date.now()
  nextSlot,     \* _nextSlot
  callers,      \* throttle() calls: their position, deadline and return time
  \* ---- wrapNode in isolation ----
  wrapIn,       \* [name, res, fb]: the stage called and how its body ended
  wrapOut,      \* the wrapped call's settlement, or [status |-> "pending"]
  \* ---- web-search fan-out (runSingleTavilyResearch) ----
  fanTasks,     \* per search: pending or its settlement (Promise.race)
  fanOrder,     \* search indices in completion order
  fanOut,       \* what runSingleTavilyResearch produced, or pending
  \* ---- deduplication ----
  ddIn,         \* the list handed to the filter
  ddOut,        \* [status, byUrl, byUserName]
  \* ---- plan_queries parsing ----
  planIn,       \* [idea, text]: the idea and the planning LLM's response
  planOut,      \* the patch plan_queries wrote, or pending
  \* ---- the searches raced against their timers (graph.js 99-106) ----
  raceNow,      \* milliseconds since the searches were launched
  raceTasks,    \* per search: pending or the settlement of its Promise.race
  raceAt,       \* per search: when its race settled (-1 while pending)
  raceOut,      \* [at, out]: when the aggregate completed and what it produced
  \* ---- two runs through one createResearchGraph instance ----
  tavilyPrefetchPromise,  \* the closure variable of graph.js 71
  runs          \* per run: its idea, its position and the tavilyData it stored

pipeVars  == <<req, pc, cur, entered, state, prefetch, tavilyRuns, events,
               taskEvents, delivered, open, hung, extOk, extFail, unhandled>>
thrVars   == <<now, nextSlot, callers>>
wrapVars  == <<wrapIn, wrapOut>>
fanVars   == <<fanTasks, fanOrder, fanOut>>
ddVars    == <<ddIn, ddOut>>
planVars  == <<planIn, planOut>>
raceVars  == <<raceNow, raceTasks, raceAt, raceOut>>
instVars  == <<tavilyPrefetchPromise, runs>>
vars      == <<pipeVars, thrVars, wrapVars, fanVars, ddVars, planVars, raceVars, instVars>>

----------------------------------------------------------------------------
(* JavaScript values *)

Null      == [t |-> "null"]
Undefined == [t |-> "undefined"]
Num(n)    == [t |-> "number", v |-> n]
Str(s)    == [t |-> "string", v |-> s]

Min(a, b) == IF a < b THEN a ELSE b
Max(a, b) == IF a > b THEN a ELSE b

Char(s, i) == SubSeq(s, i, i)

\* String.prototype.slice(0, n)
Slice(s, n) == SubSeq(s, 1, Min(Len(s), n))

\* x || d on a number: 0 is falsy
OrNum(x, d) == IF x = 0 THEN d ELSE x

\* String.prototype.trim() for the blank " "
RECURSIVE TrimLeft(_)
TrimLeft(s) ==
  IF Len(s) > 0 /\ Char(s, 1) = " " THEN TrimLeft(SubSeq(s, 2, Len(s))) ELSE s
RECURSIVE TrimRight(_)
TrimRight(s) ==
  IF Len(s) > 0 /\ Char(s, Len(s)) = " " THEN TrimRight(SubSeq(s, 1, Len(s) - 1)) ELSE s
Trim(s) == TrimRight(TrimLeft(s))

\* Values an external client or a stage body can throw.  Error(m) is an Error
\* object with message m.
Error(m)   == [t |-> "object", message |-> Str(m)]
ApiError   == Error("Request failed with status code 429")
TypeError  == Error("Cannot read properties of null")
SyntaxError == Error("Unexpected token in JSON")

----------------------------------------------------------------------------
(* JSON extraction from LLM text: graph.js 154-161, 506-507, 515-516 *)

MemberChars == {"p", "s", "z", "b", "r"}

FirstIndex(s, c) ==
  IF \E i \in 1..Len(s) : Char(s, i) = c
  THEN CHOOSE i \in 1..Len(s) :
         Char(s, i) = c /\ \A j \in 1..(i - 1) : Char(s, j) # c
  ELSE 0

LastIndex(s, c) ==
  IF \E i \in 1..Len(s) : Char(s, i) = c
  THEN CHOOSE i \in 1..Len(s) :
         Char(s, i) = c /\ \A j \in (i + 1)..Len(s) : Char(s, j) # c
  ELSE 0

\* text.match(/\{[\s\S]*\}/): from the leftmost "{" to the last "}" after it
\* (the star is greedy); no match gives null.
Match(s) ==
  LET i == FirstIndex(s, "{")
      j == LastIndex(s, "}")
  IN  IF i > 0 /\ j > i THEN [found |-> TRUE, text |-> SubSeq(s, i, j)]
      ELSE [found |-> FALSE, text |-> ""]

\* A lenient parser that accepts any text, yielding the text itself when it
\* is not JSON.  plan_queries behind such a parser would not fall back.
JsonParseLenient(s) ==
  IF s = "n" THEN [ok |-> TRUE, value |-> Null]
  ELSE [ok |-> TRUE, value |-> Str(s)]

\* JSON.parse on the token alphabet: a value is null, a number, or an object
\* "{" member* "}".  Anything else is a SyntaxError.
JsonParse(s) ==
  IF s = "n" THEN [ok |-> TRUE, value |-> Null]
  ELSE IF s = "7" THEN [ok |-> TRUE, value |-> Num(7)]
  ELSE IF /\ Len(s) >= 2
          /\ Char(s, 1) = "{"
          /\ Char(s, Len(s)) = "}"
          /\ \A i \in 2..(Len(s) - 1) : Char(s, i) \in MemberChars
       THEN [ok |-> TRUE,
             value |-> [t |-> "object", members |-> SubSeq(s, 2, Len(s) - 1)]]
  ELSE [ok |-> FALSE, value |-> Undefined]

\* const m = text.match(...); JSON.parse(m ? m[0] : text)
ParseText(text) ==
  LET m == Match(text) IN JsonParse(IF m.found THEN m.text ELSE text)

\* the value of member character c, and the key it defines
MemberKey(c) ==
  IF c \in {"s", "z"} THEN "score"
  ELSE IF c \in {"b", "r"} THEN "recommendation"
  ELSE "key"
MemberValue(c) ==
  IF c = "s" THEN Num(85)
  ELSE IF c = "z" THEN Num(0)
  ELSE IF c = "b" THEN Str("build")
  ELSE IF c = "r" THEN Num(5)
  ELSE Str("value")

\* obj[key] on a JavaScript value other than null and undefined: the last
\* member with that key for a parsed object, the field for a record built by
\* the code, undefined for a primitive.
Prop(v, key) ==
  IF v.t # "object" THEN Undefined
  ELSE IF "members" \in DOMAIN v
       THEN LET idx == {i \in 1..Len(v.members) : MemberKey(Char(v.members, i)) = key}
            IN  IF idx = {} THEN Undefined
                ELSE MemberValue(Char(v.members, CHOOSE i \in idx : \A j \in idx : j <= i))
  ELSE IF key \in DOMAIN v THEN v[key]
  ELSE Undefined

----------------------------------------------------------------------------
(* Helpers of graph.js *)

\* graph.js 56-66
fallbackQueries(idea) ==
  [t |-> "object",
   trend_scan        |-> Str(idea \o " -is:retweet lang:en"),
   demand_recent     |-> Str(idea \o " lang:en"),
   demand_top        |-> Str(idea \o " lang:en"),
   adopter_pain      |-> Str(idea \o " (wish OR struggling OR frustrated OR \"looking for\" OR \"need a\") lang:en -is:retweet"),
   investor_search   |-> Str(idea \o " investor"),
   competitor_search |-> Str(idea \o " alternative OR competitor lang:en"),
   community_query   |-> Str(idea)]

\* state.demandData?.demandScore: undefined while demandData is null
DemandScoreOf(st) ==
  IF st.demandData = Null THEN 0 ELSE st.demandData.demandScore

\* A degraded synthesis that leaves the verdict absent.
NoVerdict(st) == Null

\* graph.js 528-543
fallbackVerdict(st) ==
  [t |-> "object",
   score          |-> Num(OrNum(DemandScoreOf(st), 50)),
   headline       |-> Str("Research complete - manual review recommended"),
   recommendation |-> Str("explore"),
   investor_readiness |-> Str("not_ready"),
   competition_risk   |-> Str("medium"),
   timing         |-> Str("perfect"),
   web_insights   |-> Str("Web research unavailable")]

\* What a stage body did: returned a patch or threw, the events it emitted
\* on the way, and whether it started the web-research prefetch.
Return(patch, ev, start) ==
  [threw |-> FALSE, patch |-> patch, err |-> Undefined, ev |-> ev, start |-> start]
Throw(err, ev) ==
  [threw |-> TRUE, patch |-> Null, err |-> err, ev |-> ev, start |-> FALSE]

WarnEvent(name, msg) == [type |-> "warn", stage |-> name, msg |-> msg]

\* graph.js 73-82.  In the catch block the message is read with
\* err.message?.slice(0, 80) || "unknown error": reading .message of null or
\* undefined throws, and so does calling .slice on a message that is not a
\* string; the async function then rejects.
wrapNode(name, res, fb) ==
  IF ~res.threw
  THEN [status |-> "fulfilled", patch |-> res.patch, ev |-> res.ev, start |-> res.start]
  ELSE IF res.err.t \in {"null", "undefined"}
  THEN [status |-> "rejected", patch |-> Null, ev |-> res.ev, start |-> FALSE]
  ELSE LET m == Prop(res.err, "message") IN
       IF m.t \in {"null", "undefined"}
       THEN [status |-> "fulfilled", patch |-> fb, start |-> FALSE,
             ev |-> res.ev \o <<WarnEvent(name, "unknown error")>>]
       ELSE IF m.t = "string"
       THEN [status |-> "fulfilled", patch |-> fb, start |-> FALSE,
             ev |-> res.ev \o <<WarnEvent(name,
                       IF Slice(m.v, 80) = "" THEN "unknown error" ELSE Slice(m.v, 80))>>]
       ELSE [status |-> "rejected", patch |-> Null, ev |-> res.ev, start |-> FALSE]

----------------------------------------------------------------------------
(* Deduplication: graph.js 120-126 and 349-350 *)

\* A url filter without the seen set: it drops only the items without a url.
RECURSIVE FilterUrlLess(_, _, _)
FilterUrlLess(list, i, seen) ==
  IF i > Len(list) THEN <<>>
  ELSE IF list[i].url = ""
       THEN FilterUrlLess(list, i + 1, seen)
       ELSE <<list[i]>> \o FilterUrlLess(list, i + 1, seen)

\* allSources.filter(s => { if (!s.url || seen.has(s.url)) return false;
\*                          seen.add(s.url); return true; })
\* A missing url and the empty url are both the falsy "".
RECURSIVE FilterByUrl(_, _, _)
FilterByUrl(list, i, seen) ==
  IF i > Len(list) THEN <<>>
  ELSE IF list[i].url = "" \/ list[i].url \in seen
       THEN FilterByUrl(list, i + 1, seen)
       ELSE <<list[i]>> \o FilterByUrl(list, i + 1, seen \cup {list[i].url})
\* Merging without deduplication: every source of every search is kept.
KeepAll(list) == list

DedupByUrl(list) == FilterByUrl(list, 1, {})

\* allUsers.filter(u => { if (seen.has(u.userName)) return false;
\*                        seen.add(u.userName); return true; })
RECURSIVE FilterByUserName(_, _, _)
FilterByUserName(list, i, seen) ==
  IF i > Len(list) THEN <<>>
  ELSE IF list[i].userName \in seen
       THEN FilterByUserName(list, i + 1, seen)
       ELSE <<list[i]>> \o FilterByUserName(list, i + 1, seen \cup {list[i].userName})
DedupByUserName(list) == FilterByUserName(list, 1, {})

----------------------------------------------------------------------------
(* The web-research task: graph.js 84-139 *)

\* graph.js 87-92
searchQueries(idea) ==
  << idea \o " market size TAM startup landscape 2025",
     idea \o " competitors alternatives funding investors",
     idea \o " customer pain points use cases target market",
     idea \o " growth trends industry report" >>

Fulfilled(v) == [status |-> "fulfilled", value |-> v, reason |-> Undefined]
Rejected(e)  == [status |-> "rejected", value |-> Undefined, reason |-> e]
Pending      == [status |-> "pending", value |-> Undefined, reason |-> Undefined]

\* A Tavily response to query q: the sources found and the short answer
\* ("" when the response carries none).  The service echoes the query.
SearchResponse(q, results, answer) ==
  [t |-> "object", query |-> q, results |-> results, answer |-> answer]

\* r.status === "fulfilled" && r.value
Usable(r) == r.status = "fulfilled" /\ r.value # Undefined

\* The results field of a response is an array Arr(items), undefined, or
\* some other value.  r.value.results || [] (graph.js 111)
Arr(items) == [t |-> "array", items |-> items]
ResultsOf(resp) ==
  IF resp.results.t = "array" THEN resp.results.items ELSE <<>>

\* A results field that is truthy and not iterable makes
\* allSources.push(...results) throw a TypeError (graph.js 112).
Iterable(results) == results.t \in {"array", "undefined"}

\* graph.js 108-118, the part of the loop at position i
SearchReport(settled, i) ==
  IF Usable(settled[i])
  THEN <<[type |-> "info", search |-> i, sources |-> Len(ResultsOf(settled[i].value))]>>
  ELSE IF settled[i].status = "rejected"
  THEN <<[type |-> "warn", search |-> i, sources |-> 0]>>
  ELSE <<>>

SearchAnswer(qs, settled, i) ==
  IF Usable(settled[i]) /\ settled[i].value.answer # ""
  THEN <<[label |-> qs[i], answer |-> settled[i].value.answer]>>
  ELSE <<>>

RECURSIVE AllSources(_, _)
AllSources(settled, i) ==
  IF i > Len(settled) THEN <<>>
  ELSE (IF Usable(settled[i]) THEN ResultsOf(settled[i].value) ELSE <<>>)
       \o AllSources(settled, i + 1)

RECURSIVE Answers(_, _, _)
Answers(qs, settled, i) ==
  IF i > Len(settled) THEN <<>>
  ELSE SearchAnswer(qs, settled, i) \o Answers(qs, settled, i + 1)

RECURSIVE Reports(_, _, _)
Reports(settled, i, last) ==
  IF i > last THEN <<>>
  ELSE SearchReport(settled, i) \o Reports(settled, i + 1, last)

\* graph.js 84-139, given what Promise.allSettled returned for the searches
runSingleTavilyResearch(idea, settled) ==
  LET qs  == searchQueries(idea)
      bad == {i \in 1..Len(settled) :
                Usable(settled[i]) /\ ~Iterable(settled[i].value.results)}
  IN  IF bad # {}
      THEN LET k == CHOOSE i \in bad : \A j \in bad : i <= j
           IN  Throw(TypeError, Reports(settled, 1, k - 1))
      ELSE LET uniqueSources == DedupByUrl(AllSources(settled, 1))
               answers       == Answers(qs, settled, 1)
           IN  Return([t |-> "object",
                       searchResults |-> <<>>,
                       sources     |-> SubSeq(uniqueSources, 1, Min(Len(uniqueSources), 15)),
                       summary     |-> answers,
                       sourceCount |-> Len(uniqueSources)],
                      Reports(settled, 1, Len(settled)),
                      FALSE)

----------------------------------------------------------------------------
(* Bounds and external inputs of one run *)

ListLen  == 2       \* a non-empty list returned by the Twitter API has this length
MaxLikes == 300     \* like count of a tweet that has likes; its retweets are a third

\* The outcome of one Twitter call, after throttle() and the HTTP request:
\* the request fails (also by its 20 s axios timeout) or returns a list.
List(n) == [t |-> "list", n |-> n]
TwitterOutcomes == {Rejected(ApiError), Fulfilled(List(0)), Fulfilled(List(ListLen))}

\* The outcomes of the n Twitter calls of one stage's fan-out, by position:
\* every call fails, every call finds nothing, or one call fails while the
\* others return data.
FanScenarios(n) ==
  { [i \in 1..n |-> Rejected(ApiError)],
    [i \in 1..n |-> Fulfilled(List(0))] }
  \cup { [i \in 1..n |-> IF i = 1 THEN Rejected(ApiError) ELSE Fulfilled(List(ListLen))] }
AnyOk(tw) == \E i \in DOMAIN tw : tw[i].status = "fulfilled"
AnyFail(tw) == \E i \in DOMAIN tw : tw[i].status = "rejected"
\* A count that takes a failed call for a full list.
CountStale(r) == IF r.status = "fulfilled" THEN r.value.n ELSE ListLen

\* the length of the list a stage uses for a call:
\* res.status === "fulfilled" ? res.value : []  (graph.js 184-185, 207-208,
\* 254-257, 303-304, 342-344) and .catch(() => []) (graph.js 386)
Count(r) == IF r.status = "fulfilled" THEN r.value.n ELSE 0

\* The outcome of one LLM call: it fails or it returns a text.
LlmOutcomes(texts) == {Rejected(ApiError)} \cup {Fulfilled(Str(txt)) : txt \in texts}

PlanTexts    == {"{p}", "w", "n", "w{p}w"}
InsightTexts == {"w"}
SynthTexts   == {"{sb}", "{p}", "{r}", "w", "n", "7"}

Item(url, title) == [url |-> url, title |-> title]

\* What Promise.allSettled returned for the four searches of one task.
AllRejectedSearches == [i \in 1..4 |-> Rejected(Error("timeout"))]
OverlapSearches(idea) ==
  LET qs == searchQueries(idea) IN
  << Fulfilled(SearchResponse(qs[1], Arr(<<Item("u1", "a"), Item("u2", "b")>>), "tam")),
     Fulfilled(SearchResponse(qs[2], Arr(<<Item("u2", "c"), Item("u3", "d")>>), "")),
     Rejected(ApiError),
     Fulfilled(SearchResponse(qs[4], Undefined, "growth")) >>
MalformedSearches(idea) ==
  LET qs == searchQueries(idea) IN
  << Fulfilled(SearchResponse(qs[1], Arr(<<Item("u1", "a")>>), "tam")),
     Fulfilled(SearchResponse(qs[2], Num(5), "")),
     Rejected(ApiError),
     Rejected(Error("timeout")) >>
AllFulfilledSearches(idea) ==
  LET qs == searchQueries(idea) IN
  [i \in 1..4 |-> Fulfilled(SearchResponse(qs[i], Arr(<<Item("u1", "a")>>), "tam"))]
PipeSettled(idea) ==
  {AllRejectedSearches, OverlapSearches(idea), MalformedSearches(idea),
   AllFulfilledSearches(idea)}

AnyFulfilled(settled) == \E i \in 1..Len(settled) : settled[i].status = "fulfilled"

----------------------------------------------------------------------------
(* The stage bodies: graph.js 141-526 *)

StepEvent(name) == [type |-> "step", stage |-> name]

\* graph.js 142-174.  pre is tavilyPrefetchPromise.
planQueries(st, llm, pre) ==
  IF llm.status = "rejected" THEN Throw(llm.reason, <<>>)
  ELSE LET parsed  == ParseText(llm.value.v)
           queries == IF parsed.ok THEN parsed.value ELSE fallbackQueries(st.idea)
           ev      == <<[type |-> "queries", queries |-> queries]>>
       IN  IF queries = Null
           THEN Throw(TypeError, ev)          \* Object.entries(null)
           ELSE Return([queries |-> queries], ev, pre.status = "null")

\* graph.js 177-231
fetchTrends(st, world, usa, context, top, llm) ==
  IF llm.status = "rejected" THEN Throw(llm.reason, <<>>)
  ELSE Return([trendsData |->
                 [t |-> "object",
                  worldwideCount |-> Count(world), usaCount |-> Count(usa),
                  matched |-> 0,
                  allTrends |-> Min(Count(world) + Count(usa), 30),
                  hashtags |-> 0, keywords |-> 0,
                  contextTweets |-> Min(Count(context), 6),
                  topTweets |-> Min(Count(top), 4),
                  insights |-> llm.value]],
              <<>>, FALSE)

\* Math.round(a / b) for a >= 0, b > 0
Round(a, b) == (2 * a + b) \div (2 * b)

\* analyzer: analyzeSentiment(tweets).positive, with pos positive tweets of n
PositivePct(pos, n) == Round(pos * 100, Max(n, 1))

\* A score that is rounded and not capped.
DemandScoreUncapped(recentN, positive, likes, rts, n) ==
  LET d == 10 * Max(n, 1)
      x == recentN * d + 4 * positive * Max(n, 1)
           + Min(likes, 20 * d) + Min(2 * rts, 10 * d)
  IN  Round(x, d)

\* graph.js 271-275 with avgLikes = likes / max(n, 1), avgRt = rts / max(n, 1)
DemandScore(recentN, positive, likes, rts, n) ==
  LET d == 10 * Max(n, 1)
      x == recentN * d + 4 * positive * Max(n, 1)
           + Min(likes, 20 * d) + Min(2 * rts, 10 * d)
  IN  Min(100, Round(x, d))

\* graph.js 256-285: the stage's result for recentN, monthN, topN and compN
\* tweets of which pos are positive and none negative, with likes likes
\* and rts retweets in all
demandDataOf(recentN, monthN, topN, compN, pos, likes, rts, llm) ==
  LET n        == recentN + monthN + topN
      positive == PositivePct(pos, n)
  IN  IF llm.status = "rejected" THEN Throw(llm.reason, <<>>)
      ELSE Return([demandData |->
                     [t |-> "object",
                      recentCount |-> recentN, monthCount |-> monthN,
                      topTweets |-> Min(topN, 5),
                      competitorTweets |-> Min(compN, 3),
                      sentiment |-> [positive |-> positive,
                                     negative |-> 0,
                                     neutral  |-> PositivePct(n - pos, n)],
                      avgLikes |-> likes \div Max(n, 1),
                      avgRt    |-> rts \div Max(n, 1),
                      demandScore |-> DemandScore(recentN, positive, likes, rts, n),
                      insights |-> llm.value]],
                  <<>>, FALSE)

\* graph.js 234-286.  hot: the tweets found are positive and liked.
demandCheck(st, recent, month, top, comp, hot, llm) ==
  LET n == Count(recent) + Count(month) + Count(top)
  IN  demandDataOf(Count(recent), Count(month), Count(top), Count(comp),
                   IF hot THEN n ELSE 0,
                   IF hot THEN n * MaxLikes ELSE 0,
                   IF hot THEN n * (MaxLikes \div 3) ELSE 0,
                   llm)

\* graph.js 289-323.  pain: the tweets found carry a pain signal.
adopterSearch(st, painRes, recentPain, pain, llm) ==
  LET allPain  == Count(painRes) + Count(recentPain)
      adopters == IF pain THEN Min(allPain, 10) ELSE 0
  IN  IF llm.status = "rejected" THEN Throw(llm.reason, <<>>)
      ELSE Return([adopterData |->
                     [t |-> "object", count |-> adopters,
                      users |-> Min(adopters, 12),
                      allPainTweets |-> allPain, insights |-> llm.value]],
                  <<>>, FALSE)

\* graph.js 326-378.  signal: the profiles found are investors, all distinct.
funderSearch(st, investor, vc, funderTweets, signal, llm) ==
  LET funders == IF signal THEN Count(investor) + Count(vc) ELSE 0
      fromTweets == IF signal THEN Min(Count(funderTweets), 10) ELSE 0
  IN  IF llm.status = "rejected" THEN Throw(llm.reason, <<>>)
      ELSE Return([funderData |->
                     [t |-> "object", count |-> funders + fromTweets,
                      profileInvestors |-> Min(funders, 10),
                      tweetInvestors |-> Min(fromTweets, 5),
                      insights |-> llm.value]],
                  <<>>, FALSE)

\* graph.js 381-398: searchCommunityTweets(...).catch(() => [])
communityResearch(st, comm) ==
  Return([communityData |->
            [t |-> "object", tweets |-> Min(Count(comm), 8), count |-> Count(comm)]],
         <<>>, FALSE)

\* graph.js 401-412.  joined is the settlement of the awaited task.
tavilyResearch(st, joined) ==
  IF joined.status = "rejected" THEN Throw(joined.reason, <<>>)
  ELSE Return([tavilyData |-> joined.value],
              <<[type |-> "step_done", stage |-> "web_research",
                 sources |-> joined.value.sourceCount]>>, FALSE)

\* A verdict event built with optional chaining throughout (verdict?.score):
\* it never throws.
VerdictEventNeverThrows(verdict) == FALSE

\* graph.js 523: verdict.score and verdict.recommendation?.toUpperCase()
VerdictEventThrows(verdict) ==
  IF verdict = Null THEN TRUE
  ELSE Prop(verdict, "recommendation").t \notin {"undefined", "null", "string"}

\* graph.js 415-526.  gpt is the outcome of the secondary call, made only
\* when the Gemini call or the parsing of its text failed.
geminiSynthesis(st, gem, gpt) ==
  LET first   == IF gem.status = "fulfilled" THEN ParseText(gem.value.v)
                 ELSE [ok |-> FALSE, value |-> Undefined]
      second  == IF gpt.status = "fulfilled" THEN ParseText(gpt.value.v)
                 ELSE [ok |-> FALSE, value |-> Undefined]
      verdict == IF first.ok THEN first.value
                 ELSE IF second.ok THEN second.value
                 ELSE fallbackVerdict(st)
      warn    == IF first.ok THEN <<>>
                 ELSE <<[type |-> "warn", stage |-> "Gemini", msg |-> "GPT fallback"]>>
  IN  IF VerdictEventThrows(verdict) THEN Throw(TypeError, warn)
      ELSE Return([verdict |-> verdict],
                  warn \o <<[type |-> "verdict", verdict |-> verdict]>>, FALSE)

----------------------------------------------------------------------------
(* The graph: graph.js 28-39 and 546-584 *)

\* graph.js 28-39: every field has the reducer (_, y) => y and its default
DefaultState ==
  [idea |-> "", description |-> "",
   queries |-> Null, trendsData |-> Null, demandData |-> Null,
   adopterData |-> Null, funderData |-> Null, communityData |-> Null,
   tavilyData |-> Null, verdict |-> Null]

\* A merge that has not happened yet when the next node starts.
MergeDeferred(st, patch) == st

\* A merge that rebuilds the state from the defaults and the patch alone.
MergeOntoDefaults(st, patch) ==
  [f \in DOMAIN st |-> IF f \in DOMAIN patch THEN patch[f] ELSE DefaultState[f]]

\* the reducers applied to a node's patch
Merge(st, patch) ==
  [f \in DOMAIN st |-> IF f \in DOMAIN patch THEN patch[f] ELSE st[f]]

\* A chain with the edge out of demand_check drawn past adopter_search.
EdgeSkippingAdopters ==
  [START              |-> "plan_queries",
   plan_queries       |-> "fetch_trends",
   fetch_trends       |-> "demand_check",
   demand_check       |-> "funder_search",
   adopter_search     |-> "funder_search",
   funder_search      |-> "community_research",
   community_research |-> "tavily_research",
   tavily_research    |-> "gemini_synthesis",
   gemini_synthesis   |-> "END"]

\* graph.js 574-582
Edge ==
  [START              |-> "plan_queries",
   plan_queries       |-> "fetch_trends",
   fetch_trends       |-> "demand_check",
   demand_check       |-> "adopter_search",
   adopter_search     |-> "funder_search",
   funder_search      |-> "community_research",
   community_research |-> "tavily_research",
   tavily_research    |-> "gemini_synthesis",
   gemini_synthesis   |-> "END"]

\* the display name wrapNode is given for each node: graph.js 547-573
WrapName ==
  [plan_queries       |-> "Plan queries",
   fetch_trends       |-> "Trends",
   demand_check       |-> "Demand",
   adopter_search     |-> "Adopters",
   funder_search      |-> "Funders",
   community_research |-> "Community",
   tavily_research    |-> "Web intel",
   gemini_synthesis   |-> "Synthesis"]

\* the fallback factories: graph.js 547-573
Fallback(node, st) ==
  CASE node = "plan_queries" -> [queries |-> fallbackQueries(st.idea)]
    [] node = "fetch_trends" ->
         [trendsData |->
            [t |-> "object", worldwideCount |-> 0, usaCount |-> 0, matched |-> 0,
             allTrends |-> 0, hashtags |-> 0, keywords |-> 0,
             contextTweets |-> 0, topTweets |-> 0,
             insights |-> Str("Trend data unavailable due to API/runtime failure.")]]
    [] node = "demand_check" ->
         [demandData |->
            [t |-> "object", recentCount |-> 0, monthCount |-> 0, topTweets |-> 0,
             competitorTweets |-> 0,
             sentiment |-> [positive |-> 0, negative |-> 0, neutral |-> 100],
             avgLikes |-> 0, avgRt |-> 0, demandScore |-> 0,
             insights |-> Str("Demand data unavailable due to API/runtime failure.")]]
    [] node = "adopter_search" ->
         [adopterData |->
            [t |-> "object", count |-> 0, users |-> 0, allPainTweets |-> 0,
             insights |-> Str("Adopter data unavailable due to API/runtime failure.")]]
    [] node = "funder_search" ->
         [funderData |->
            [t |-> "object", count |-> 0, profileInvestors |-> 0, tweetInvestors |-> 0,
             insights |-> Str("Funder data unavailable due to API/runtime failure.")]]
    [] node = "community_research" ->
         [communityData |-> [t |-> "object", tweets |-> 0, count |-> 0]]
    [] node = "tavily_research" ->
         [tavilyData |->
            [t |-> "object", searchResults |-> <<>>, sources |-> <<>>,
             summary |-> <<>>, sourceCount |-> 0]]
    [] node = "gemini_synthesis" -> [verdict |-> fallbackVerdict(st)]

\* the node LangGraph runs next: the edge out of the last node entered
NextNode == Edge[IF entered = <<>> THEN "START" ELSE entered[Len(entered)]]

\* the stages whose body awaits an LLM call, which has no timeout
LlmStages == {"plan_queries", "fetch_trends", "demand_check", "adopter_search",
              "funder_search", "gemini_synthesis"}

----------------------------------------------------------------------------
(* One request: index.js 218-260 (SSE) and 266-304 (WebSocket) *)

RawIdeas == {Undefined, Str(""), Str("ab"), Str("  ab "), Str(" solar drone ")}

\* the length test without the trim
InvalidIdeaUntrimmed(idea) ==
  IF idea.t = "undefined" THEN TRUE
  ELSE IF idea.v = "" THEN TRUE
  ELSE Len(idea.v) < 3

\* !idea || String(idea).trim().length < 3
InvalidIdea(idea) ==
  IF idea.t = "undefined" THEN TRUE
  ELSE IF idea.v = "" THEN TRUE
  ELSE Len(Trim(idea.v)) < 3

PrefetchNull == [status |-> "null", value |-> Undefined, reason |-> Undefined]

\* A send that writes whatever the state of the transport, and throws once
\* the transport is closed.
SendThrowsWhenClosed(isOpen) == ~isOpen

\* send(data): index.js 235-238 and 285-288.  logToConsole, then the write
\* behind its guard (!res.writableEnded, ws.readyState === 1): the call
\* returns normally whatever the state of the transport.
SendThrows(isOpen) == FALSE

\* The events send was called with.  The write happens only while the
\* transport is open.
Send(evs) == events' = events \o evs

\* send of the run's last event, complete or error
SendTerminal(ev) ==
  /\ events' = Append(events, ev)
  /\ delivered' = IF open THEN Append(delivered, ev) ELSE delivered

\* emit from inside runSingleTavilyResearch
Stamp(evs) == [i \in 1..Len(evs) |-> [ev |-> evs[i], at |-> pc]]

\* a step of the request leaves the other components alone
PipeOnly == UNCHANGED <<thrVars, wrapVars, fanVars, ddVars, planVars, raceVars, instVars>>

PipeInit ==
  /\ req \in [transport : {"sse", "ws"}, idea : RawIdeas, description : {""}]
  /\ pc = "request"
  /\ cur = "none"
  /\ entered = <<>>
  /\ state = DefaultState
  /\ prefetch = PrefetchNull
  /\ tavilyRuns = 0
  /\ events = <<>>
  /\ taskEvents = <<>>
  /\ delivered = <<>>
  /\ open = TRUE
  /\ hung = FALSE
  /\ extOk = FALSE
  /\ extFail = FALSE
  /\ unhandled = FALSE

\* index.js 223-225 (an HTTP 400 response) and 278-281 (an error message)
RejectRequest ==
  /\ pc = "request"
  /\ InvalidIdea(req.idea)
  /\ pc' = "rejected"
  /\ SendTerminal([type |-> IF req.transport = "sse" THEN "http_400" ELSE "error",
                   msg  |-> "Provide a startup idea (min 3 chars)."])
  /\ open' = (open /\ req.transport = "ws")
  /\ UNCHANGED <<req, cur, entered, state, prefetch, tavilyRuns, taskEvents, hung, extOk, extFail, unhandled>>
  /\ PipeOnly

\* index.js 243-250 and 290-297: the banner, createResearchGraph, graph.invoke
AcceptRequest ==
  /\ pc = "request"
  /\ ~InvalidIdea(req.idea)
  /\ pc' = "invoke"
  /\ state' = [DefaultState EXCEPT !.idea = Trim(req.idea.v),
                                   !.description = Trim(req.description)]
  /\ prefetch' = PrefetchNull
  /\ Send(<<[type |-> "init"]>>)
  /\ UNCHANGED <<req, cur, entered, tavilyRuns, taskEvents, delivered, open, hung, extOk, extFail, unhandled>>
  /\ PipeOnly

\* LangGraph starts the next node of the chain; the body emits its step event
EnterStage ==
  /\ pc = "invoke"
  /\ cur = "none"
  /\ NextNode # "END"
  /\ cur' = NextNode
  /\ entered' = Append(entered, NextNode)
  /\ Send(<<StepEvent(NextNode)>>)
  /\ UNCHANGED <<req, pc, state, prefetch, tavilyRuns, taskEvents, delivered, open,
                 hung, extOk, extFail, unhandled>>
  /\ PipeOnly

\* The wrapped node settles.  When it resolves LangGraph merges its patch;
\* when it rejects graph.invoke rejects and the handler sends the error event
\* (index.js 253-258 and 300-303).
FinishStage(node, res, anyOk) ==
  LET w == IF SendThrows(open)
           THEN \* emit throws in the body and again in the wrapper's catch
                [status |-> "rejected", patch |-> Null, ev |-> <<>>, start |-> FALSE]
           ELSE wrapNode(WrapName[node], res, Fallback(node, state)) IN
  /\ pc = "invoke"
  /\ cur = node
  /\ ~hung
  /\ cur' = "none"
  /\ extOk' = (extOk \/ anyOk)
  /\ IF w.status = "fulfilled"
     THEN /\ state' = Merge(state, w.patch)
          /\ pc' = "invoke"
          /\ Send(w.ev)
          /\ UNCHANGED <<delivered, open>>
     ELSE /\ state' = state
          /\ pc' = "error"
          /\ SendTerminal([type |-> "error", msg |-> "Agent error"])
          /\ open' = (open /\ req.transport = "ws")
  /\ UNCHANGED <<req, entered, hung, unhandled>>
  /\ PipeOnly

Ok(r) == r.status = "fulfilled"

PlanQueriesStage ==
  \E credits \in {Rejected(ApiError), Fulfilled(Num(ListLen))},
     llm \in LlmOutcomes(PlanTexts) :
    LET res == planQueries(state, llm, prefetch) IN
    /\ FinishStage("plan_queries", res, Ok(credits) \/ Ok(llm))
    /\ extFail' = (extFail \/ ~Ok(credits) \/ ~Ok(llm))
    /\ IF res.start
       THEN /\ prefetch' = [PrefetchNull EXCEPT !.status = "pending"]
            /\ tavilyRuns' = tavilyRuns + 1
       ELSE UNCHANGED <<prefetch, tavilyRuns>>
    /\ UNCHANGED taskEvents

FetchTrendsStage ==
  \E tw \in FanScenarios(4), llm \in LlmOutcomes(InsightTexts) :
    /\ FinishStage("fetch_trends",
                   fetchTrends(state, tw[1], tw[2], tw[3], tw[4], llm),
                   AnyOk(tw) \/ Ok(llm))
    /\ extFail' = (extFail \/ AnyFail(tw) \/ ~Ok(llm))
    /\ UNCHANGED <<prefetch, tavilyRuns, taskEvents>>

\* the tweets found are positive and liked
DemandCheckStage ==
  \E tw \in FanScenarios(4), llm \in LlmOutcomes(InsightTexts) :
    /\ FinishStage("demand_check",
                   demandCheck(state, tw[1], tw[2], tw[3], tw[4], TRUE, llm),
                   AnyOk(tw) \/ Ok(llm))
    /\ extFail' = (extFail \/ AnyFail(tw) \/ ~Ok(llm))
    /\ UNCHANGED <<prefetch, tavilyRuns, taskEvents>>

\* the tweets found carry a pain signal
AdopterSearchStage ==
  \E tw \in FanScenarios(2), llm \in LlmOutcomes(InsightTexts) :
    /\ FinishStage("adopter_search",
                   adopterSearch(state, tw[1], tw[2], TRUE, llm),
                   AnyOk(tw) \/ Ok(llm))
    /\ extFail' = (extFail \/ AnyFail(tw) \/ ~Ok(llm))
    /\ UNCHANGED <<prefetch, tavilyRuns, taskEvents>>

\* the profiles found are investors
FunderSearchStage ==
  \E tw \in FanScenarios(3), llm \in LlmOutcomes(InsightTexts) :
    /\ FinishStage("funder_search",
                   funderSearch(state, tw[1], tw[2], tw[3], TRUE, llm),
                   AnyOk(tw) \/ Ok(llm))
    /\ extFail' = (extFail \/ AnyFail(tw) \/ ~Ok(llm))
    /\ UNCHANGED <<prefetch, tavilyRuns, taskEvents>>

CommunityResearchStage ==
  \E tw \in FanScenarios(1) :
    /\ FinishStage("community_research", communityResearch(state, tw[1]), AnyOk(tw))
    /\ extFail' = (extFail \/ AnyFail(tw))
    /\ UNCHANGED <<prefetch, tavilyRuns, taskEvents>>

\* The detached task started by plan_queries settles (graph.js 171).
TavilySettle ==
  /\ pc = "invoke"
  /\ prefetch.status = "pending"
  /\ \E settled \in PipeSettled(state.idea) :
       LET res == runSingleTavilyResearch(state.idea, settled) IN
       /\ prefetch' = IF res.threw THEN Rejected(res.err) ELSE Fulfilled(res.patch)
       /\ taskEvents' = taskEvents \o Stamp(res.ev)
       /\ extOk' = (extOk \/ AnyFulfilled(settled))
       /\ extFail' = (extFail \/ AnyFail(settled))
       /\ unhandled' = (unhandled \/ (res.threw /\ cur # "tavily_research"))
  /\ UNCHANGED <<req, pc, cur, entered, state, tavilyRuns, events, delivered, open, hung>>
  /\ PipeOnly

\* A tavily_research that ignores the prefetch and always runs the task itself.
NeverJoinsPrefetch(pre) == FALSE

\* graph.js 405: tavilyPrefetchPromise ? ... : ...
JoinsPrefetch(pre) == pre.status # "null"

\* graph.js 405-407: await the prefetch if there is one, else run the task now
TavilyResearchStage ==
  \/ /\ JoinsPrefetch(prefetch)
     /\ prefetch.status \in {"fulfilled", "rejected"}
     /\ FinishStage("tavily_research", tavilyResearch(state, prefetch), FALSE)
     /\ UNCHANGED <<prefetch, tavilyRuns, taskEvents, extFail>>
  \/ /\ ~JoinsPrefetch(prefetch)
     /\ \E settled \in PipeSettled(state.idea) :
          LET run    == runSingleTavilyResearch(state.idea, settled)
              joined == IF run.threw THEN Rejected(run.err) ELSE Fulfilled(run.patch)
          IN  /\ FinishStage("tavily_research", tavilyResearch(state, joined),
                             AnyFulfilled(settled))
              /\ taskEvents' = taskEvents \o Stamp(run.ev)
              /\ extFail' = (extFail \/ AnyFail(settled))
     /\ tavilyRuns' = tavilyRuns + 1
     /\ UNCHANGED prefetch

GeminiSynthesisStage ==
  \E gem \in LlmOutcomes(SynthTexts), gpt \in LlmOutcomes(SynthTexts) :
    /\ FinishStage("gemini_synthesis", geminiSynthesis(state, gem, gpt),
                   Ok(gem) \/ (~(Ok(gem) /\ ParseText(gem.value.v).ok) /\ Ok(gpt)))
    /\ extFail' = (extFail \/ ~Ok(gem) \/ (~ParseText(gem.value.v).ok /\ ~Ok(gpt)))
    /\ UNCHANGED <<prefetch, tavilyRuns, taskEvents>>

\* graph.invoke returned: saveResearchForUser, then the complete event, then
\* (SSE) res.end(): index.js 251-258 and 298-299
Complete ==
  /\ pc = "invoke"
  /\ cur = "none"
  /\ NextNode = "END"
  /\ pc' = "complete"
  /\ SendTerminal([type |-> "complete", result |-> state])
  /\ open' = (open /\ req.transport = "ws")
  /\ UNCHANGED <<req, cur, entered, state, prefetch, tavilyRuns, taskEvents, hung, extOk, extFail, unhandled>>
  /\ PipeOnly

\* the client disconnects
Close ==
  /\ open
  /\ pc \in {"request", "invoke"}
  /\ open' = FALSE
  /\ UNCHANGED <<req, pc, cur, entered, state, prefetch, tavilyRuns, events,
                 taskEvents, delivered, hung, extOk, extFail, unhandled>>
  /\ PipeOnly

\* The process-level reaction to a rejection nobody handles: current Node
\* raises it as an uncaught exception and the process exits, taking the
\* run and its connection with it; older versions and
\* --unhandled-rejections=warn only log, which is this step not being taken.
UnhandledRejection ==
  /\ unhandled
  /\ pc = "invoke"
  /\ pc' = "crashed"
  /\ open' = FALSE
  /\ UNCHANGED <<req, cur, entered, state, prefetch, tavilyRuns, events,
                 taskEvents, delivered, hung, extOk, extFail, unhandled>>
  /\ PipeOnly

\* The LLM call the running stage awaits never settles: llm.invoke and
\* gemini.generateContent are awaited without a timeout (graph.js 149, 215,
\* 266, 315, 360, 503, 511).
LlmNeverResponds ==
  /\ pc = "invoke"
  /\ cur \in LlmStages
  /\ ~hung
  /\ hung' = TRUE
  /\ UNCHANGED <<req, pc, cur, entered, state, prefetch, tavilyRuns, events,
                 taskEvents, delivered, open, extOk, extFail, unhandled>>
  /\ PipeOnly

----------------------------------------------------------------------------
(* The components at rest *)

PipeIdle ==
  /\ req = [transport |-> "sse", idea |-> Undefined, description |-> ""]
  /\ pc = "idle"
  /\ cur = "none"
  /\ entered = <<>>
  /\ state = DefaultState
  /\ prefetch = PrefetchNull
  /\ tavilyRuns = 0
  /\ events = <<>>
  /\ taskEvents = <<>>
  /\ delivered = <<>>
  /\ open = TRUE
  /\ hung = FALSE
  /\ extOk = FALSE
  /\ extFail = FALSE
  /\ unhandled = FALSE
ThrIdle  == now = 0 /\ nextSlot = 0 /\ callers = <<>>
WrapIdle == wrapIn = Null /\ wrapOut = Null
FanIdle  == fanTasks = <<>> /\ fanOrder = <<>> /\ fanOut = Null
DdIdle   == ddIn = <<>> /\ ddOut = Null
PlanIdle == planIn = Null /\ planOut = Null
RaceIdle == raceNow = 0 /\ raceTasks = <<>> /\ raceAt = <<>> /\ raceOut = Null
InstIdle == tavilyPrefetchPromise = PrefetchNull /\ runs = <<>>

----------------------------------------------------------------------------
(* Specification of one request.  The external clients fail by throwing    *)
(* Error objects (axios, the OpenAI, Gemini and Tavily clients).           *)

Init == PipeInit /\ ThrIdle /\ WrapIdle /\ FanIdle /\ DdIdle /\ PlanIdle /\ RaceIdle /\ InstIdle

Next ==
  \/ RejectRequest
  \/ AcceptRequest
  \/ EnterStage
  \/ PlanQueriesStage
  \/ FetchTrendsStage
  \/ DemandCheckStage
  \/ AdopterSearchStage
  \/ FunderSearchStage
  \/ CommunityResearchStage
  \/ TavilySettle
  \/ TavilyResearchStage
  \/ GeminiSynthesisStage
  \/ Complete
  \/ Close
  \/ LlmNeverResponds
  \/ UnhandledRejection

Spec == Init /\ [][Next]_vars

\* The same request under a fair scheduler: the event loop runs every
\* continuation that is ready, so a step that stays possible is taken.
FairSpec == Init /\ [][Next]_vars /\ WF_vars(Next)

----------------------------------------------------------------------------
(* The rate limiter: twitter.js 15-22 *)

Interval   == 5600               \* twitter.js 20
TickMs     == Interval \div 4    \* the clock's resolution in the model
NumCallers == 3                  \* throttle() calls in one behaviour
MaxTime    == 16800              \* the clock stops here
MaxLate    == 2800               \* a timer fires at most this long after its deadline

ThrOnly == UNCHANGED <<pipeVars, wrapVars, fanVars, ddVars, planVars, raceVars, instVars>>

\* Date.now() is positive and _nextSlot is 0 when the module is loaded
ThrInit == now = TickMs /\ nextSlot = 0 /\ callers = <<>>

\* A reservation that leaves a slot already reserved where it is, so that
\* the calls queued behind it read the same slot.
ReserveOnce(t, slot) == IF slot > t THEN slot ELSE t + Interval

\* A reservation that counts from the present instant only.
ReserveFromNow(t, slot) == t + Interval

\* twitter.js 20: the slot value left for the next caller
Reserve(t, slot) == Max(t, slot) + Interval

\* A wait computed from the slot being reserved, not from the one read.
WaitForReserved(t, slot) == Max(t, slot) + Interval - t

\* twitter.js 19: the wait until the slot read, 0 when it is in the past
Wait(t, slot) == Max(0, slot - t)

\* setTimeout (twitter.js 15): of two timers that are due, the event loop
\* runs the one that expires first before the other
RunsBefore(a, b) == a.deadline <= b.deadline

\* A service function (twitter.js 40-174: each awaits throttle() once and
\* then issues its one request) calls throttle().  throttle() up to its await
\* (twitter.js 18-21) reads and advances _nextSlot; a call that need not wait
\* returns at once and the request goes out, the others arm a timer for
\* their reserved slot.
throttle ==
  /\ Len(callers) < NumCallers
  /\ LET wait == Wait(now, nextSlot) IN
     /\ nextSlot' = Reserve(now, nextSlot)
     /\ callers' = Append(callers,
                     [at       |-> now,
                      read     |-> nextSlot,
                      deadline |-> now + wait,
                      pos      |-> IF wait = 0 THEN "returned" ELSE "delayed",
                      ret      |-> IF wait = 0 THEN now ELSE 0,
                      throttles |-> IF wait = 0 THEN 1 ELSE 0,
                      sent     |-> IF wait = 0 THEN now ELSE 0,
                      res      |-> "pending"])
  /\ UNCHANGED now
  /\ ThrOnly

\* delay(wait) resolves (twitter.js 15, 21): setTimeout runs its callback at
\* or after the deadline, earlier deadlines first; throttle() returns and the
\* service function issues its request (client.get).
delay ==
  /\ \E c \in 1..Len(callers) :
       /\ callers[c].pos = "delayed"
       /\ now >= callers[c].deadline
       /\ \A d \in 1..Len(callers) :
            callers[d].pos = "delayed" => RunsBefore(callers[c], callers[d])
       /\ callers' = [callers EXCEPT ![c].pos = "returned", ![c].ret = now,
                                     ![c].throttles = 1, ![c].sent = now]
  /\ UNCHANGED <<now, nextSlot>>
  /\ ThrOnly

\* A limiter that hands the slot of a failed request back.
SlotReleased(slot, outcome) == IF outcome = "failed" THEN slot - Interval ELSE slot

\* What the end of a request leaves in _nextSlot.  No service function
\* writes it: getCredits (twitter.js 165-174) returns the credits, or null
\* from its catch, and the others return or throw (twitter.js 40-160).
SlotAfterRequest(slot, outcome) == slot

\* client.get settles for a caller whose throttle() has returned: the
\* request is answered or fails (timeout, HTTP error).
response ==
  /\ \E c \in 1..Len(callers), outcome \in {"ok", "failed"} :
       /\ callers[c].pos = "returned"
       /\ callers[c].res = "pending"
       /\ callers' = [callers EXCEPT ![c].res = outcome]
       /\ nextSlot' = SlotAfterRequest(nextSlot, outcome)
  /\ UNCHANGED now
  /\ ThrOnly

\* time passes; a due timer is not kept waiting longer than MaxLate
ClockAdvances ==
  /\ now + TickMs <= MaxTime
  /\ \A c \in 1..Len(callers) :
       callers[c].pos = "delayed" => now + TickMs <= callers[c].deadline + MaxLate
  /\ now' = now + TickMs
  /\ UNCHANGED <<nextSlot, callers>>
  /\ ThrOnly

InitThrottle == PipeIdle /\ ThrInit /\ WrapIdle /\ FanIdle /\ DdIdle /\ PlanIdle /\ RaceIdle /\ InstIdle
NextThrottle == throttle \/ delay \/ response \/ ClockAdvances
SpecThrottle == InitThrottle /\ [][NextThrottle]_vars

----------------------------------------------------------------------------
(* wrapNode on its own: graph.js 73-82 *)

Nodes == DOMAIN WrapName

\* what a stage body can throw: Error objects, and the other values a
\* JavaScript throw or a rejected promise can carry
LongMessage ==
  "connect ETIMEDOUT 104.18.32.47:443 while requesting /twitter/tweet/advanced_search?query=solar"

ThrownValues ==
  { ApiError, TypeError, Error(""), Error(LongMessage), Null, Undefined, Str("boom"), Num(5),
    [t |-> "object", message |-> Num(404)],
    [t |-> "object", message |-> Null],
    [t |-> "object", code |-> Str("ECONNRESET")] }

WrapState == [DefaultState EXCEPT !.idea = "solar drone"]

WrapOnly == UNCHANGED <<pipeVars, thrVars, fanVars, ddVars, planVars, raceVars, instVars>>

WrapInit ==
  /\ wrapIn \in { [node |-> n, res |-> r] :
                    n \in Nodes,
                    r \in {Return([ok |-> TRUE], <<>>, FALSE)}
                          \cup {Throw(v, <<>>) : v \in ThrownValues} }
  /\ wrapOut = [status |-> "pending"]

\* the wrapped stage function is called and settles
WrappedCall ==
  /\ wrapOut.status = "pending"
  /\ wrapOut' = wrapNode(WrapName[wrapIn.node], wrapIn.res,
                         Fallback(wrapIn.node, WrapState))
  /\ UNCHANGED wrapIn
  /\ WrapOnly

InitWrap == PipeIdle /\ ThrIdle /\ WrapInit /\ FanIdle /\ DdIdle /\ PlanIdle /\ RaceIdle /\ InstIdle
NextWrap == WrappedCall
SpecWrap == InitWrap /\ [][NextWrap]_vars

----------------------------------------------------------------------------
(* The web-search fan-out: graph.js 99-118 *)

FanIdea == "solar drone"
QueryTag == <<"a", "b", "c", "d">>

\* what the search service returns for query i: i sources found nowhere
\* else, and an answer naming the query
SourcesFor(i) == [k \in 1..i |-> Item(QueryTag[i] \o QueryTag[k], QueryTag[i])]
AnswerFor(i)  == "answer " \o QueryTag[i]

\* Promise.allSettled variant that lists the settlements as they complete
allSettledByCompletion(tasks, order) == [k \in DOMAIN tasks |-> tasks[order[k]]]

\* Promise.allSettled (graph.js 99): the settlements in the order of the
\* promises passed in, whatever the order in which they settled
allSettled(tasks, order) == tasks

FanOnly == UNCHANGED <<pipeVars, thrVars, wrapVars, ddVars, planVars, raceVars, instVars>>

FanInit ==
  /\ fanTasks = [i \in 1..Len(searchQueries(FanIdea)) |-> Pending]
  /\ fanOrder = <<>>
  /\ fanOut = Null

Settle(i, outcome) ==
  /\ fanTasks[i].status = "pending"
  /\ fanTasks' = [fanTasks EXCEPT ![i] = outcome]
  /\ fanOrder' = Append(fanOrder, i)
  /\ UNCHANGED fanOut
  /\ FanOnly

\* tvly.search(q, ...) resolves first (graph.js 102)
SearchFulfils ==
  \E i \in DOMAIN fanTasks, answer \in BOOLEAN :
    Settle(i, Fulfilled(SearchResponse(searchQueries(FanIdea)[i], Arr(SourcesFor(i)),
                                       IF answer THEN AnswerFor(i) ELSE "")))

\* tvly.search(q, ...) rejects first (graph.js 102)
SearchRejects == \E i \in DOMAIN fanTasks : Settle(i, Rejected(ApiError))

\* the 25 s timer rejects first (graph.js 103)
TimeoutFires == \E i \in DOMAIN fanTasks : Settle(i, Rejected(Error("timeout")))

\* every race has settled: the await returns and the loop runs (graph.js 108-139)
Aggregate ==
  /\ fanOut = Null
  /\ \A i \in DOMAIN fanTasks : fanTasks[i].status # "pending"
  /\ fanOut' = runSingleTavilyResearch(FanIdea, allSettled(fanTasks, fanOrder))
  /\ UNCHANGED <<fanTasks, fanOrder>>
  /\ FanOnly

InitFanout == PipeIdle /\ ThrIdle /\ WrapIdle /\ FanInit /\ DdIdle /\ PlanIdle /\ RaceIdle /\ InstIdle
NextFanout == SearchFulfils \/ SearchRejects \/ TimeoutFires \/ Aggregate
SpecFanout == InitFanout /\ [][NextFanout]_vars

----------------------------------------------------------------------------
(* One stage behind its wrapper, for every combination of outcomes of the  *)
(* data calls of its fan-out; the LLM call of the stage succeeds.          *)

FanStages == {"fetch_trends", "demand_check", "adopter_search", "funder_search",
              "community_research", "tavily_research"}

\* what the search service answers for query i when the Twitter-style
\* outcome r is translated to a web search: a failure, no source, i sources
SearchOutcome(i, r) ==
  IF r.status = "rejected" THEN r
  ELSE Fulfilled(SearchResponse(searchQueries(FanIdea)[i],
                                Arr(IF r.value.n = 0 THEN <<>> ELSE SourcesFor(i)),
                                IF r.value.n = 0 THEN "" ELSE AnswerFor(i)))

\* the stage's body on the outcomes tw of its data calls, by position
StageBody(node, st, tw, flag, llm) ==
  CASE node = "fetch_trends"   -> fetchTrends(st, tw[1], tw[2], tw[3], tw[4], llm)
    [] node = "demand_check"   -> demandCheck(st, tw[1], tw[2], tw[3], tw[4], flag, llm)
    [] node = "adopter_search" -> adopterSearch(st, tw[1], tw[2], flag, llm)
    [] node = "funder_search"  -> funderSearch(st, tw[1], tw[2], tw[3], flag, llm)
    [] node = "community_research" -> communityResearch(st, tw[1])
    [] node = "tavily_research" ->
         LET run == runSingleTavilyResearch(st.idea, [i \in 1..4 |-> SearchOutcome(i, tw[i])])
         IN  LET body == tavilyResearch(st, IF run.threw THEN Rejected(run.err)
                                            ELSE Fulfilled(run.patch))
             IN  [body EXCEPT !.ev = run.ev \o body.ev]

AbsorbInit ==
  /\ wrapIn \in [node : FanStages, tw : [1..4 -> TwitterOutcomes], flag : BOOLEAN]
  /\ wrapOut = [status |-> "pending"]

\* the wrapped stage runs and settles
StageRuns ==
  /\ wrapOut.status = "pending"
  /\ wrapOut' = wrapNode(WrapName[wrapIn.node],
                         StageBody(wrapIn.node, WrapState, wrapIn.tw, wrapIn.flag,
                                   Fulfilled(Str("w"))),
                         Fallback(wrapIn.node, WrapState))
  /\ UNCHANGED wrapIn
  /\ WrapOnly

InitAbsorb == PipeIdle /\ ThrIdle /\ AbsorbInit /\ FanIdle /\ DdIdle /\ PlanIdle /\ RaceIdle /\ InstIdle
NextAbsorb == StageRuns
SpecAbsorb == InitAbsorb /\ [][NextAbsorb]_vars

----------------------------------------------------------------------------
(* The demand score on its own: graph.js 256-285 behind its wrapper, for   *)
(* every number of tweets up to MaxRecent + 2, every number of positive    *)
(* ones among them and like and retweet counts from none to MaxLikes each. *)

MaxRecent == 35     \* tweets of the last 7 days returned by one search

\* likes and retweets of one tweet (likeCount || 0, retweetCount || 0)
LikeCounts == {0, 1, MaxLikes \div 3, MaxLikes}

\* the tweets found: a of the last 7 days, b of the last 30, c top tweets,
\* p of them positive, each with l likes and r retweets
DemandInput(a, b, c, p, l, r, ok) ==
  [recentN |-> a, monthN |-> b, topN |-> c, pos |-> p,
   likes |-> (a + b + c) * l, rts |-> (a + b + c) * r, llmOk |-> ok]

DemandInit ==
  /\ \E a \in 0..MaxRecent, b \in 0..1, c \in 0..1 :
       \E p \in 0..(a + b + c), l \in LikeCounts, r \in LikeCounts, ok \in BOOLEAN :
         wrapIn = DemandInput(a, b, c, p, l, r, ok)
  /\ wrapOut = [status |-> "pending"]

\* the wrapped demand_check runs on the tweets found and settles
DemandCheckRuns ==
  /\ wrapOut.status = "pending"
  /\ wrapOut' = wrapNode(WrapName["demand_check"],
                         demandDataOf(wrapIn.recentN, wrapIn.monthN, wrapIn.topN, 0,
                                      wrapIn.pos, wrapIn.likes, wrapIn.rts,
                                      IF wrapIn.llmOk THEN Fulfilled(Str("w"))
                                      ELSE Rejected(ApiError)),
                         Fallback("demand_check", WrapState))
  /\ UNCHANGED wrapIn
  /\ WrapOnly

InitDemand == PipeIdle /\ ThrIdle /\ DemandInit /\ FanIdle /\ DdIdle /\ PlanIdle /\ RaceIdle /\ InstIdle
NextDemand == DemandCheckRuns
SpecDemand == InitDemand /\ [][NextDemand]_vars

----------------------------------------------------------------------------
(* Deduplication on its own: graph.js 120-126 and 349-350 *)

MaxItems == 3      \* length of the longest list handed to a filter

\* the keys: "" stands for a missing or empty url / userName
Keys   == {"", "k1", "k2"}
Titles == {"x", "y"}
DdItems == [url : Keys, userName : Keys, title : Titles]

RECURSIVE Lists(_, _)
Lists(S, n) ==
  IF n = 0 THEN {<<>>}
  ELSE LET shorter == Lists(S, n - 1)
       IN  shorter \cup {Append(l, x) : l \in {m \in shorter : Len(m) = n - 1}, x \in S}

\* the two filters are given lists keyed the same way, so one key field varies
DdInputs == {l \in Lists(DdItems, MaxItems) : \A i \in 1..Len(l) : l[i].url = l[i].userName}

DdOnly == UNCHANGED <<pipeVars, thrVars, wrapVars, fanVars, planVars, raceVars, instVars>>

DdInit ==
  /\ ddIn \in DdInputs
  /\ ddOut = [urlDone |-> FALSE, byUrl |-> <<>>, nameDone |-> FALSE, byUserName |-> <<>>]

\* graph.js 120-126
DedupSources ==
  /\ ~ddOut.urlDone
  /\ ddOut' = [ddOut EXCEPT !.urlDone = TRUE, !.byUrl = DedupByUrl(ddIn)]
  /\ UNCHANGED ddIn
  /\ DdOnly

\* graph.js 349-350
DedupFunders ==
  /\ ~ddOut.nameDone
  /\ ddOut' = [ddOut EXCEPT !.nameDone = TRUE, !.byUserName = DedupByUserName(ddIn)]
  /\ UNCHANGED ddIn
  /\ DdOnly

InitDedup == PipeIdle /\ ThrIdle /\ WrapIdle /\ FanIdle /\ DdInit /\ PlanIdle /\ RaceIdle /\ InstIdle
NextDedup == DedupSources \/ DedupFunders
SpecDedup == InitDedup /\ [][NextDedup]_vars

----------------------------------------------------------------------------
(* plan_queries on the planning LLM's text: graph.js 142-174 behind wrapNode *)

MaxTextLen == 4     \* length of the longest response text

TextAlphabet == {"{", "}", "w", "n", "7", "p"}

RECURSIVE Texts(_)
Texts(n) ==
  IF n = 0 THEN {""}
  ELSE LET shorter == Texts(n - 1)
       IN  shorter \cup {s \o c : s \in {u \in shorter : Len(u) = n - 1}, c \in TextAlphabet}

PlanIdeas == {"abc", "solar drone"}

PlanOnly == UNCHANGED <<pipeVars, thrVars, wrapVars, fanVars, ddVars, raceVars, instVars>>

PlanInit ==
  /\ planIn \in [idea : PlanIdeas, text : Texts(MaxTextLen)]
  /\ planOut = [status |-> "pending"]

\* the plan_queries node runs with the LLM answering planIn.text
PlanQueriesRuns ==
  /\ planOut.status = "pending"
  /\ LET st == [DefaultState EXCEPT !.idea = planIn.idea] IN
     planOut' = wrapNode(WrapName["plan_queries"],
                         planQueries(st, Fulfilled(Str(planIn.text)), PrefetchNull),
                         Fallback("plan_queries", st))
  /\ UNCHANGED planIn
  /\ PlanOnly

InitPlan == PipeIdle /\ ThrIdle /\ WrapIdle /\ FanIdle /\ DdIdle /\ PlanInit /\ RaceIdle /\ InstIdle
NextPlan == PlanQueriesRuns
SpecPlan == InitPlan /\ [][NextPlan]_vars

----------------------------------------------------------------------------
(* The web-research aggregate over overlapping result lists: graph.js 108-138 *)

MaxResults == 7     \* graph.js 102: maxResults
SourceCap  == 15    \* graph.js 135: uniqueSources.slice(0, 15)

UrlTag == <<"a", "b", "c", "d", "e", "f", "g">>

\* the urls the search service knows, in its ranking order
Pool ==
  [n \in 1..(4 * MaxResults) |->
     UrlTag[((n - 1) \div MaxResults) + 1] \o UrlTag[((n - 1) % MaxResults) + 1]]

\* a search returns MaxResults consecutive urls of the pool from an offset
Offsets == {0, 4, 7, 14, 21}
Window(i, o) ==
  Fulfilled(SearchResponse(searchQueries(FanIdea)[i],
                           Arr([k \in 1..MaxResults |-> Item(Pool[o + k], UrlTag[i])]),
                           ""))

\* the four searches have settled, each failed or with a window of results
SourcesInit ==
  /\ fanTasks \in { [i \in 1..4 |-> IF c[i] = -1 THEN Rejected(ApiError) ELSE Window(i, c[i])] :
                     c \in [1..4 -> Offsets \cup {-1}] }
  /\ fanOrder = <<1, 2, 3, 4>>
  /\ fanOut = Null

InitSources == PipeIdle /\ ThrIdle /\ WrapIdle /\ SourcesInit /\ DdIdle /\ PlanIdle /\ RaceIdle /\ InstIdle
NextSources == Aggregate
SpecSources == InitSources /\ [][NextSources]_vars

----------------------------------------------------------------------------
(* The searches raced against their 25 s timers: graph.js 99-106 *)

RaceTimeout == 25000                \* graph.js 103
RaceTick    == RaceTimeout \div 4   \* the clock's resolution in the model
RaceLate    == 6250                 \* a timer fires at most this long after its deadline

RaceOnly == UNCHANGED <<pipeVars, thrVars, wrapVars, fanVars, ddVars, planVars, instVars>>

\* searchQueries.map has created the four races and their timers (graph.js 100)
RaceInit ==
  /\ raceNow = 0
  /\ raceTasks = [i \in 1..Len(searchQueries(FanIdea)) |-> Pending]
  /\ raceAt = [i \in 1..Len(searchQueries(FanIdea)) |-> -1]
  /\ raceOut = Null

\* Promise.race settles as the first of its two promises does (graph.js 101)
RaceSettle(i, outcome) ==
  /\ raceTasks[i].status = "pending"
  /\ raceTasks' = [raceTasks EXCEPT ![i] = outcome]
  /\ raceAt' = [raceAt EXCEPT ![i] = raceNow]
  /\ UNCHANGED <<raceNow, raceOut>>
  /\ RaceOnly

\* a timer of 0 ms instead of 25000
TimerDueAtOnce(t) == TRUE

\* setTimeout(..., 25000) never runs its callback before 25000 ms have passed
TimerDue(t) == t >= RaceTimeout

\* tvly.search answers before the timer's callback has run (graph.js 102)
SearchAnswers ==
  \E i \in DOMAIN raceTasks :
    RaceSettle(i, Fulfilled(SearchResponse(searchQueries(FanIdea)[i],
                                           Arr(SourcesFor(i)), AnswerFor(i))))

\* tvly.search rejects before the timer's callback has run (graph.js 102)
SearchFails == \E i \in DOMAIN raceTasks : RaceSettle(i, Rejected(ApiError))

\* the timer's callback runs while the search is still pending (graph.js 103)
TimerFires ==
  \E i \in DOMAIN raceTasks :
    TimerDue(raceNow) /\ RaceSettle(i, Rejected(Error("timeout")))

\* Time passes while some race is pending.  Every pending race has a timer
\* whose callback the event loop runs at most RaceLate after its deadline.
RaceClock ==
  /\ \E i \in DOMAIN raceTasks : raceTasks[i].status = "pending"
  /\ raceNow + RaceTick <= RaceTimeout + RaceLate
  /\ raceNow' = raceNow + RaceTick
  /\ UNCHANGED <<raceTasks, raceAt, raceOut>>
  /\ RaceOnly

\* the last race has settled: Promise.allSettled resolves in the same turn
\* and the loop runs (graph.js 99, 108-139)
RaceAggregate ==
  /\ raceOut = Null
  /\ \A i \in DOMAIN raceTasks : raceTasks[i].status # "pending"
  /\ raceOut' = [at  |-> raceNow,
                 out |-> runSingleTavilyResearch(FanIdea,
                           allSettled(raceTasks, [i \in DOMAIN raceTasks |-> i]))]
  /\ UNCHANGED <<raceNow, raceTasks, raceAt>>
  /\ RaceOnly

InitRace == PipeIdle /\ ThrIdle /\ WrapIdle /\ FanIdle /\ DdIdle /\ PlanIdle /\ RaceInit /\ InstIdle
NextRace == SearchAnswers \/ SearchFails \/ TimerFires \/ RaceClock \/ RaceAggregate
SpecRace == InitRace /\ [][NextRace]_vars

----------------------------------------------------------------------------
(* Two runs through one pipeline instance: the closure of graph.js 69-72   *)
(* is created once by createResearchGraph and every invoke of the returned *)
(* graph runs the same node functions over it.  The runs may overlap or    *)
(* follow each other.  Every external call succeeds.                       *)

InstIdeas == <<"solar drone", "pet hotel">>

InstOnly == UNCHANGED <<pipeVars, thrVars, wrapVars, fanVars, ddVars, planVars, raceVars>>

\* createResearchGraph has returned: let tavilyPrefetchPromise = null
InstInit ==
  /\ tavilyPrefetchPromise = PrefetchNull
  /\ runs = [r \in DOMAIN InstIdeas |->
               [idea |-> InstIdeas[r], at |-> "idle", tavilyData |-> Null]]

\* the promise runSingleTavilyResearch(idea) returns, and its settlement
TaskPromise(idea) ==
  [status |-> "pending", value |-> Undefined, reason |-> Undefined, idea |-> idea]
TaskSettlement(idea) ==
  LET res == runSingleTavilyResearch(idea, AllFulfilledSearches(idea))
  IN  IF res.threw THEN Rejected(res.err) ELSE Fulfilled(res.patch)

RunState(r) == [DefaultState EXCEPT !.idea = runs[r].idea]

\* graph.invoke({idea, description}) (index.js 246-250, 293-297)
InstInvoke ==
  \E r \in DOMAIN runs :
    /\ runs[r].at = "idle"
    /\ runs' = [runs EXCEPT ![r].at = "START"]
    /\ UNCHANGED tavilyPrefetchPromise
    /\ InstOnly

\* plan_queries of run r (graph.js 142-174)
InstPlanQueries ==
  \E r \in DOMAIN runs :
    LET res == planQueries(RunState(r), Fulfilled(Str("{p}")), tavilyPrefetchPromise) IN
    /\ runs[r].at # "idle"
    /\ Edge[runs[r].at] = "plan_queries"
    /\ runs' = [runs EXCEPT ![r].at = "plan_queries"]
    /\ tavilyPrefetchPromise' =
         IF res.start THEN TaskPromise(runs[r].idea) ELSE tavilyPrefetchPromise
    /\ InstOnly

\* the web-research task started last settles
InstTaskSettles ==
  /\ tavilyPrefetchPromise.status = "pending"
  /\ tavilyPrefetchPromise' = TaskSettlement(tavilyPrefetchPromise.idea)
  /\ UNCHANGED runs
  /\ InstOnly

\* fetch_trends .. community_research of run r: none touches the closure
InstMiddleStage ==
  \E r \in DOMAIN runs :
    /\ runs[r].at \notin {"idle", "START", "community_research",
                          "tavily_research", "gemini_synthesis"}
    /\ runs' = [runs EXCEPT ![r].at = Edge[runs[r].at]]
    /\ UNCHANGED tavilyPrefetchPromise
    /\ InstOnly

\* tavily_research of run r (graph.js 401-412)
InstTavilyResearch ==
  \E r \in DOMAIN runs :
    LET joined == IF JoinsPrefetch(tavilyPrefetchPromise)
                  THEN tavilyPrefetchPromise
                  ELSE TaskSettlement(runs[r].idea)
        res == tavilyResearch(RunState(r), joined)
    IN  /\ runs[r].at = "community_research"
        /\ joined.status # "pending"
        /\ runs' = [runs EXCEPT ![r].at = "tavily_research",
                                ![r].tavilyData = res.patch.tavilyData]
        /\ UNCHANGED tavilyPrefetchPromise
        /\ InstOnly

\* gemini_synthesis of run r; graph.invoke returns
InstSynthesis ==
  \E r \in DOMAIN runs :
    /\ runs[r].at = "tavily_research"
    /\ runs' = [runs EXCEPT ![r].at = "gemini_synthesis"]
    /\ UNCHANGED tavilyPrefetchPromise
    /\ InstOnly

InitInstance == PipeIdle /\ ThrIdle /\ WrapIdle /\ FanIdle /\ DdIdle /\ PlanIdle /\ RaceIdle /\ InstInit
NextInstance ==
  \/ InstInvoke
  \/ InstPlanQueries
  \/ InstTaskSettles
  \/ InstMiddleStage
  \/ InstTavilyResearch
  \/ InstSynthesis
SpecInstance == InitInstance /\ [][NextInstance]_vars

----------------------------------------------------------------------------
(* Properties *)

HasEvent(ev) == \E i \in DOMAIN events : events[i] = ev

\* C1: whenever graph.invoke has returned, whatever the stage outcomes were,
\* the verdict field of the final run state is not null.
VerdictNonNull == pc = "complete" => state.verdict # Null

\* A run returned although the synthesis produced a verdict on which building
\* the verdict event threw (the JSON literal null, or a recommendation that
\* is not a string): the Synthesis wrapper supplied the fallback verdict.
VerdictNonNullWitness ==
  /\ pc = "complete"
  /\ HasEvent(WarnEvent("Synthesis", TypeError.message.v))
  /\ state.verdict = fallbackVerdict(state)

\* C2: any two throttle() calls, the second made no earlier than the first,
\* return at instants at least 5600 ms apart.
ThrottleSpacing ==
  \A i, j \in 1..Len(callers) :
    (i < j /\ callers[i].pos = "returned" /\ callers[j].pos = "returned")
      => callers[j].ret - callers[i].ret >= Interval

\* C3: a stage function produced by wrapNode never rejects, whatever value
\* the stage body throws.
WrapNeverRejects == wrapOut.status # "rejected"

\* C4: the stages are entered in the fixed order, each once and none skipped,
\* also after a stage degraded to its fallback; a run that returns has
\* entered all eight.
StageOrder ==
  << "plan_queries", "fetch_trends", "demand_check", "adopter_search",
     "funder_search", "community_research", "tavily_research", "gemini_synthesis" >>

StagesInOrder ==
  /\ Len(entered) <= Len(StageOrder)
  /\ entered = SubSeq(StageOrder, 1, Len(entered))
  /\ Cardinality({i \in DOMAIN events : events[i].type = "step"}) = Len(entered)
  /\ pc = "complete" => entered = StageOrder

\* A run returned with all eight stages entered although demand_check had
\* degraded to its fallback.
StagesInOrderWitness ==
  /\ pc = "complete"
  /\ entered = StageOrder
  /\ HasEvent(WarnEvent("Demand", ApiError.message.v))

\* C5: a run that passed validation eventually reaches its terminal event,
\* complete or error, whatever the external services do.
RunTerminates == (pc = "invoke") ~> (pc \in {"complete", "error"})

\* C6: the web-search fan-out reports one outcome per search, the i-th for
\* the i-th query whatever the completion order, as many failed as searches
\* failed; source counts and answers are those of the query at that position.
FanoutPositional ==
  fanOut # Null =>
    LET qs == searchQueries(FanIdea)
        ev == fanOut.ev
        answered == {i \in DOMAIN fanTasks :
                       fanTasks[i].status = "fulfilled" /\ fanTasks[i].value.answer # ""}
    IN  /\ ~fanOut.threw
        /\ Len(ev) = Len(qs)
        /\ \A i \in DOMAIN ev :
             /\ ev[i].search = i
             /\ fanTasks[i].status = "fulfilled"
                  => ev[i].type = "info" /\ ev[i].sources = Len(SourcesFor(i))
             /\ fanTasks[i].status = "rejected"
                  => ev[i].type = "warn"
        /\ Cardinality({i \in DOMAIN ev : ev[i].type = "warn"})
             = Cardinality({i \in DOMAIN fanTasks : fanTasks[i].status = "rejected"})
        /\ Len(fanOut.patch.summary) = Cardinality(answered)
        /\ \A i \in answered :
             \E k \in DOMAIN fanOut.patch.summary :
               fanOut.patch.summary[k] = [label |-> qs[i], answer |-> AnswerFor(i)]

\* The searches completed in reverse order, the second failed, the others
\* succeeded, and the task has aggregated them.
FanoutPositionalWitness ==
  /\ fanOut # Null
  /\ fanOrder = <<4, 3, 2, 1>>
  /\ fanTasks[2].status = "rejected"
  /\ \A i \in {1, 3, 4} : fanTasks[i].status = "fulfilled" /\ fanTasks[i].value.answer # ""

\* C7: runSingleTavilyResearch is invoked at most once in a run, and what
\* tavily_research stores after joining a fulfilled prefetch is that task's
\* result.
SingleTavilyRun ==
  /\ tavilyRuns <= 1
  /\ Cardinality({i \in DOMAIN taskEvents : taskEvents[i].ev.search = 1}) <= 1
  /\ (state.tavilyData # Null /\ prefetch.status = "fulfilled")
       => state.tavilyData = prefetch.value

\* tavily_research joined a prefetch that had found sources.
SingleTavilyRunWitness ==
  /\ state.tavilyData # Null
  /\ prefetch.status = "fulfilled"
  /\ tavilyRuns = 1
  /\ state.tavilyData.sourceCount > 0

\* C8: deduplication.  Positions(list, key, k) are the places where key k occurs.
Positions(list, key, k) == {i \in DOMAIN list : list[i][key] = k}
KeysOf(list, key) == {list[i][key] : i \in DOMAIN list}
First(S) == CHOOSE i \in S : \A j \in S : i <= j

\* out holds each key of keys exactly once and nothing else, each time the
\* first item of in with that key, in the order in which the keys first occur
IsDedupOf(out, in, key, keys) ==
  /\ \A k \in keys : Cardinality(Positions(out, key, k)) = 1
  /\ \A i \in DOMAIN out :
       /\ out[i][key] \in keys
       /\ out[i] = in[First(Positions(in, key, out[i][key]))]
  /\ \A i, j \in DOMAIN out :
       i < j => First(Positions(in, key, out[i][key]))
                  < First(Positions(in, key, out[j][key]))

AllFailVerdict ==
  (pc = "complete" /\ ~extOk) =>
    /\ state.verdict = fallbackVerdict(state)
    /\ state.verdict.recommendation = Str("explore")
    /\ state.verdict.score = Num(state.demandData.demandScore)

\* C10: a text is non-JSON when it is not a JSON value and holds no JSON
\* object; for such a response plan_queries writes fallbackQueries(idea).
IsJsonObject(s) ==
  /\ Len(s) >= 2
  /\ Char(s, 1) = "{" /\ Char(s, Len(s)) = "}"
  /\ \A i \in 2..(Len(s) - 1) : Char(s, i) \notin {"{", "}", "w", "n", "7"}
NonJson(s) ==
  /\ s \notin {"n", "7"}
  /\ \A i, j \in 1..Len(s) : i < j => ~IsJsonObject(SubSeq(s, i, j))

NonJsonGivesFallback ==
  (planOut.status # "pending" /\ NonJson(planIn.text)) =>
    /\ planOut.status = "fulfilled"
    /\ planOut.patch = [queries |-> fallbackQueries(planIn.idea)]

\* plan_queries ran on prose that holds braces but no JSON.
NonJsonGivesFallbackWitness ==
  /\ planOut.status = "fulfilled"
  /\ planIn.text = "w{w}"
  /\ planOut.patch = [queries |-> fallbackQueries(planIn.idea)]

\* C11: when every external call of the run succeeded, the final verdict has
\* a numeric score between 0 and 100 and a recommendation among build,
\* explore, pivot and abandon.
Recommendations == {"build", "explore", "pivot", "abandon"}

AllOkVerdictWellFormed ==
  (pc = "complete" /\ ~extFail) =>
    LET score == Prop(state.verdict, "score")
        rec   == Prop(state.verdict, "recommendation")
    IN  /\ score.t = "number"
        /\ IF score.t = "number" THEN score.v \in 0..100 ELSE FALSE
        /\ rec.t = "string"
        /\ IF rec.t = "string" THEN rec.v \in Recommendations ELSE FALSE

\* C12: the urls returned by the searches that succeeded, and the sum of the
\* lengths of their result lists
UnionUrls ==
  UNION { {ResultsOf(fanTasks[i].value)[k].url : k \in DOMAIN ResultsOf(fanTasks[i].value)} :
          i \in {j \in DOMAIN fanTasks : fanTasks[j].status = "fulfilled"} }
RECURSIVE SumLengths(_)
SumLengths(i) ==
  IF i = 0 THEN 0
  ELSE SumLengths(i - 1)
       + (IF fanTasks[i].status = "fulfilled" THEN Len(ResultsOf(fanTasks[i].value)) ELSE 0)

\* C12 as stated: the aggregated source list has exactly one entry per
\* distinct url, its length being the size of the union of the urls returned.
SourcesAreTheUnion ==
  fanOut # Null =>
    /\ Len(fanOut.patch.sources) = Cardinality(UnionUrls)
    /\ \A i, j \in DOMAIN fanOut.patch.sources :
         i # j => fanOut.patch.sources[i].url # fanOut.patch.sources[j].url

\* C12 amended: the source list holds one entry per distinct url, every entry
\* a returned url, cut to the first SourceCap entries; sourceCount is the
\* size of the union.
SourcesAreTheUnionCapped ==
  fanOut # Null =>
    /\ Len(fanOut.patch.sources) = Min(SourceCap, Cardinality(UnionUrls))
    /\ fanOut.patch.sourceCount = Cardinality(UnionUrls)
    /\ \A i \in DOMAIN fanOut.patch.sources : fanOut.patch.sources[i].url \in UnionUrls
    /\ \A i, j \in DOMAIN fanOut.patch.sources :
         i # j => fanOut.patch.sources[i].url # fanOut.patch.sources[j].url

\* Two searches succeeded with lists sharing three urls: fourteen results,
\* eleven sources.
SourcesAreTheUnionCappedWitness ==
  /\ fanOut # Null
  /\ SumLengths(4) = 2 * MaxResults
  /\ Cardinality(UnionUrls) = 2 * MaxResults - 3
  /\ Len(fanOut.patch.sources) = 2 * MaxResults - 3

\* C13: the slots reserved by successive throttle() calls are strictly
\* increasing by at least 5600 ms, and no two calls read the same value of
\* the shared next-slot variable.
SlotsDistinct ==
  \A i, j \in 1..Len(callers) :
    i < j => /\ callers[j].deadline - callers[i].deadline >= Interval
             /\ callers[j].read # callers[i].read
             /\ callers[j].read >= callers[i].read + Interval

\* Three calls made at the same instant hold three different slots.
SlotsDistinctWitness ==
  /\ Len(callers) = 3
  /\ callers[1].at = callers[2].at /\ callers[2].at = callers[3].at
  /\ callers[3].deadline = callers[1].deadline + 2 * Interval

\* C14: every request to the Twitter API goes out after exactly one completed
\* throttle() call of its service function, and two requests are never
\* issued less than 5600 ms apart.
RequestsPaced ==
  \A i, j \in 1..Len(callers) :
    (i # j /\ callers[i].pos = "returned" /\ callers[j].pos = "returned")
      => /\ callers[i].throttles = 1
         /\ callers[j].sent >= callers[i].sent + Interval
            \/ callers[i].sent >= callers[j].sent + Interval

\* C15: a wrapped stage whose body succeeds resolves with the body's patch
\* and emits no warning; one whose body fails emits exactly one warn event
\* naming the stage, with the error message cut to at most 80 characters,
\* and resolves with the fallback patch for the state it was called with.
WrapContract ==
  wrapOut.status # "pending" =>
    IF ~wrapIn.res.threw
    THEN /\ wrapOut.status = "fulfilled"
         /\ wrapOut.patch = wrapIn.res.patch
         /\ wrapOut.ev = wrapIn.res.ev
    ELSE /\ wrapOut.status = "fulfilled"
         /\ wrapOut.patch = Fallback(wrapIn.node, WrapState)
         /\ Len(wrapOut.ev) = 1
         /\ wrapOut.ev[1].type = "warn"
         /\ wrapOut.ev[1].stage = WrapName[wrapIn.node]
         /\ Len(wrapOut.ev[1].msg) <= 80
         /\ LET m == Prop(wrapIn.res.err, "message") IN
            (m.t = "string" /\ m.v # "") => wrapOut.ev[1].msg = SubSeq(m.v, 1, Min(80, Len(m.v)))

\* C16: the field each stage is designated to write
StageField ==
  [plan_queries       |-> "queries",
   fetch_trends       |-> "trendsData",
   demand_check       |-> "demandData",
   adopter_search     |-> "adopterData",
   funder_search      |-> "funderData",
   community_research |-> "communityData",
   tavily_research    |-> "tavilyData",
   gemini_synthesis   |-> "verdict"]

\* C16: during a run a step changes no field of the run state other than
\* the designated field of the stage that is finishing, changes it only from
\* its initial null, and a stage that finished has written its field.
EachFieldWrittenOnce ==
  [][ pc = "invoke" =>
        /\ \A f \in DOMAIN state :
             state'[f] # state[f] =>
               /\ cur # "none"
               /\ f = StageField[cur]
               /\ state[f] = Null
        /\ (cur # "none" /\ cur' = "none" /\ pc' = "invoke")
             => state'[StageField[cur]] # Null ]_vars

\* A run returned with every field written, the trends by the fallback, and
\* the idea as it was given.
EachFieldWrittenOnceWitness ==
  /\ pc = "complete"
  /\ HasEvent(WarnEvent("Trends", ApiError.message.v))
  /\ \A n \in DOMAIN StageField : state[StageField[n]] # Null
  /\ state.idea = "solar drone"
  /\ state.trendsData = Fallback("fetch_trends", state).trendsData

\* C17: the stage whose body executes is the last one entered, every stage
\* entered before it has its patch merged, so its field can be read, and no
\* later stage has written anything.
StagesSequential ==
  /\ cur # "none" => (entered # <<>> /\ cur = entered[Len(entered)])
  /\ \A k \in 1..Len(entered) :
       (k < Len(entered) \/ cur = "none") => state[StageField[entered[k]]] # Null
  /\ \A n \in DOMAIN StageField :
       (cur = n \/ \A k \in 1..Len(entered) : entered[k] # n)
         => state[StageField[n]] = Null

\* demand_check executes on the merged queries and trends while the
\* prefetched web-research task is still running.
StagesSequentialWitness ==
  /\ cur = "demand_check"
  /\ prefetch.status = "pending"
  /\ state.queries # Null /\ state.trendsData # Null
  /\ state.demandData = Null

\* C18: once fetch_trends has begun, the web-research task has been started
\* (by plan_queries).
PrefetchStartedInPlan ==
  (\E k \in 1..Len(entered) : entered[k] = "fetch_trends")
    => (prefetch.status # "null" /\ tavilyRuns = 1)

\* C19: a failure of the prefetched web-research task is seen only by
\* tavily_research when it joins the task; it never shows up as a rejection
\* that nothing is handling, nor takes the process down.
PrefetchFailureOnlyAtJoin == ~unhandled /\ pc # "crashed"

\* C20: the synthesis stage never fails into its wrapper, and the static
\* fallback verdict is in the state only after the primary tier failed and
\* the secondary tier was tried.
GptFallbackWarn == [type |-> "warn", stage |-> "Gemini", msg |-> "GPT fallback"]

SynthesisTwoTier ==
  /\ \A i \in DOMAIN events :
       ~(events[i].type = "warn" /\ events[i].stage = WrapName["gemini_synthesis"])
  /\ (state.verdict # Null /\ state.verdict = fallbackVerdict(state))
       => HasEvent(GptFallbackWarn)

TimedOut(i) == raceTasks[i].status = "rejected" /\ raceTasks[i].reason = Error("timeout")

NoStageAfterDisconnect ==
  [][(pc = "invoke" /\ ~open) => entered' = entered]_vars

\* the ideas that are missing or shorter than 3 characters once trimmed
MissingOrShort == {Undefined, Str(""), Str("ab"), Str("  ab ")}

\* C23: a request whose idea is missing or shorter than 3 characters after
\* trimming is rejected once, before stage 1: no stage runs, no external call
\* is made, nothing is stored in the run state, and the only thing sent is
\* one error (an HTTP 400 response or a WebSocket error message), no verdict.
InvalidRejectedOnce ==
  (req.idea \in MissingOrShort /\ pc # "request") =>
    /\ pc = "rejected"
    /\ entered = <<>> /\ cur = "none"
    /\ ~extOk /\ ~extFail /\ tavilyRuns = 0 /\ prefetch = PrefetchNull
    /\ nextSlot = 0
    /\ state = DefaultState
    /\ Len(events) = 1
    /\ events[1].type = (IF req.transport = "sse" THEN "http_400" ELSE "error")
    /\ delivered \in {<<>>, events}

\* A WebSocket request with the idea "  ab " has been answered.
InvalidRejectedOnceWitness ==
  /\ pc = "rejected"
  /\ req.transport = "ws"
  /\ req.idea = Str("  ab ")
  /\ Len(delivered) = 1

\* the seven intents of a query plan
Intents == {"trend_scan", "demand_recent", "demand_top", "adopter_pain",
            "investor_search", "competitor_search", "community_query"}

\* C24: after plan_queries has completed, whatever the planning LLM
\* answered, the queries field defines all seven intents.
QueriesDefineAllIntents ==
  planOut.status # "pending" =>
    /\ planOut.status = "fulfilled"
    /\ \A k \in Intents : Prop(planOut.patch.queries, k) # Undefined

\* the number of characters c in s[i..j]
CountChar(s, c, i, j) == Cardinality({k \in i..j : Char(s, k) = c})

\* s[i..j] opens at i and closes at j for the first time
Balanced(s, i, j) ==
  /\ Char(s, i) = "{" /\ Char(s, j) = "}"
  /\ CountChar(s, "{", i, j) = CountChar(s, "}", i, j)
  /\ \A k \in i..(j - 1) : CountChar(s, "{", i, k) > CountChar(s, "}", i, k)

\* the first balanced object of a text: the leftmost "{" that is closed, up
\* to the "}" that closes it
FirstBalanced(s) ==
  LET starts == {i \in 1..Len(s) : \E j \in i..Len(s) : Balanced(s, i, j)}
  IN  IF starts = {} THEN [found |-> FALSE, text |-> ""]
      ELSE LET i == CHOOSE a \in starts : \A b \in starts : a <= b
               j == CHOOSE e \in i..Len(s) : Balanced(s, i, e)
           IN  [found |-> TRUE, text |-> SubSeq(s, i, j)]

\* C25: when the response text holds a balanced JSON object and the first
\* such object parses, plan_queries stores that object and not the fallback.
ExtractsFirstBalancedObject ==
  LET b == FirstBalanced(planIn.text) IN
  (planOut.status # "pending" /\ b.found /\ IsJsonObject(b.text)) =>
    /\ planOut.status = "fulfilled"
    /\ planOut.patch.queries =
         [t |-> "object", members |-> SubSeq(b.text, 2, Len(b.text) - 1)]

\* C26: the final state of a run depends only on that run's own input and
\* the responses to its own requests: the web intelligence a run has stored
\* is the result of the web research for its own idea.
RunsShareNothing ==
  \A r \in DOMAIN runs :
    runs[r].at \in {"tavily_research", "gemini_synthesis"} =>
      runs[r].tavilyData = TaskSettlement(runs[r].idea).value

\* the designated stage of a field has completed
Completed(n) ==
  /\ \E k \in 1..Len(entered) : entered[k] = n
  /\ cur # n
  /\ pc # "error"

\* C27: every data field of the run state is null until its designated stage
\* has completed and holds a value that is neither null nor undefined from
\* then on, also when the stage degraded to its fallback or found nothing.
FieldsAbsentUntilWritten ==
  \A n \in DOMAIN StageField :
    IF Completed(n)
    THEN state[StageField[n]] \notin {Null, Undefined}
    ELSE state[StageField[n]] = Null

\* Synthesis is running: the trends stage degraded to its fallback, the
\* community stage found nothing, and the verdict is still absent.
FieldsAbsentUntilWrittenWitness ==
  /\ pc = "invoke"
  /\ cur = "gemini_synthesis"
  /\ state.verdict = Null
  /\ state.trendsData = Fallback("fetch_trends", state).trendsData
  /\ state.communityData.count = 0

\* the outcomes with every failed call replaced by one that found nothing
AsEmpty(tw) ==
  [i \in DOMAIN tw |-> IF tw[i].status = "rejected" THEN Fulfilled(List(0)) ELSE tw[i]]

\* the calls a stage makes, by position in its fan-out
CallsOf ==
  [fetch_trends |-> 1..4, demand_check |-> 1..4, adopter_search |-> 1..2,
   funder_search |-> 1..3, community_research |-> 1..1, tavily_research |-> 1..4]

\* the counts of a stage's patch
CountsOf(node, d) ==
  CASE node = "fetch_trends" ->
         {d.worldwideCount, d.usaCount, d.allTrends, d.contextTweets, d.topTweets}
    [] node = "demand_check" ->
         {d.recentCount, d.monthCount, d.topTweets, d.competitorTweets, d.demandScore}
    [] node = "adopter_search" -> {d.count, d.users, d.allPainTweets}
    [] node = "funder_search" -> {d.count, d.profileInvestors, d.tweetInvestors}
    [] node = "community_research" -> {d.count, d.tweets}
    [] node = "tavily_research" -> {d.sourceCount, Len(d.sources), Len(d.summary)}

\* C28: whatever data calls of a stage's fan-out fail, the wrapped stage
\* resolves with the patch it would return had those calls found nothing,
\* without a wrapper warning; when every data call failed the counts of the
\* patch are zero.
FailuresAbsorbedInStage ==
  wrapOut.status # "pending" =>
    LET node == wrapIn.node
        same == StageBody(node, WrapState, AsEmpty(wrapIn.tw), wrapIn.flag,
                          Fulfilled(Str("w")))
    IN  /\ wrapOut.status = "fulfilled"
        /\ \A k \in DOMAIN wrapOut.ev : "stage" \in DOMAIN wrapOut.ev[k] => wrapOut.ev[k].type # "warn"
        /\ wrapOut.patch = same.patch
        /\ DOMAIN wrapOut.patch = {StageField[node]}
        /\ (\A i \in CallsOf[node] : wrapIn.tw[i].status = "rejected")
             => CountsOf(node, wrapOut.patch[StageField[node]]) = {0}

\* demand_check ran with its first call failed and the others returning
\* tweets, and returned a demand score computed from those.
FailuresAbsorbedInStageWitness ==
  /\ wrapOut.status = "fulfilled"
  /\ wrapIn.node = "demand_check"
  /\ wrapIn.tw[1].status = "rejected"
  /\ \A i \in 2..4 : wrapIn.tw[i] = Fulfilled(List(ListLen))
  /\ wrapOut.patch.demandData.monthCount = ListLen
  /\ wrapOut.patch.demandData.recentCount = 0

ThrottleWaitsExactly ==
  \A i \in 1..Len(callers) :
    callers[i].pos = "returned" => callers[i].ret = Max(callers[i].at, callers[i].read)

\* C30, amended: a throttle() call whose slot value is in the past returns
\* at once; any other call asks for a delay of that value minus now, returns
\* no earlier than the value it read, and no later than the timer's lateness
\* after it.
ThrottleWaitsAtLeast ==
  \A i \in 1..Len(callers) :
    LET c == callers[i] IN
    /\ c.deadline = Max(c.at, c.read)
    /\ c.read <= c.at => (c.pos = "returned" /\ c.ret = c.at)
    /\ c.read > c.at =>
         /\ c.pos = "delayed" => now <= c.read + MaxLate
         /\ c.pos = "returned" => (c.ret >= c.read /\ c.ret <= c.read + MaxLate)

\* A call found the limiter idle for more than the interval and returned at
\* once, after an earlier call had waited for its slot.
ThrottleWaitsAtLeastWitness ==
  /\ Len(callers) = 3
  /\ callers[2].read > callers[2].at /\ callers[2].pos = "returned"
  /\ callers[3].read < callers[3].at /\ callers[3].ret = callers[3].at

Terminals == {i \in DOMAIN events : events[i].type \in {"complete", "error"}}

\* C32: a run sends exactly one terminal event, complete or error and never
\* both, and after it send is called with no further event of the run,
\* neither of a stage nor of the web-research task.
OneTerminalEvent ==
  /\ [](Cardinality(Terminals) <= 1)
  /\ [][Terminals # {} => (events' = events /\ taskEvents' = taskEvents)]_vars
  /\ (pc = "invoke" ~> Terminals # {})

\* the verdict events send was called with
VerdictEvents == {i \in DOMAIN events : events[i].type = "verdict"}

\* C33: in a run that has sent its complete event exactly one verdict event
\* was emitted before it, carrying the verdict of the final state.
OneVerdictEvent ==
  pc = "complete" =>
    /\ Cardinality(VerdictEvents) = 1
    /\ \A i \in VerdictEvents :
         /\ events[i].verdict = state.verdict
         /\ \A k \in Terminals : i < k

Waiting == Cardinality({c \in 1..Len(callers) : callers[c].pos = "delayed"})

\* C34: _nextSlot never decreases, whatever step is taken, the failure of a
\* caller's request included, and it is never more than
\* 5600 ms * (callers still waiting + 1) ahead of the current time.
NextSlotMonotoneAndBounded ==
  /\ [][nextSlot' >= nextSlot]_vars
  /\ [](nextSlot <= now + Interval * (Waiting + 1))

\* The first caller's request has failed while two callers wait, and the
\* slot value sits exactly on the bound.
NextSlotMonotoneAndBoundedWitness ==
  /\ Waiting = 2
  /\ \E c \in 1..Len(callers) : callers[c].res = "failed"
  /\ nextSlot = now + Interval * (Waiting + 1)

\* C35: the demandScore that demand_check writes is a whole number from 0 to
\* 100 whatever the tweet counts, the share of positive tweets and the
\* non-negative like and retweet counts are, and it is 0 when the stage's
\* fallback wrote the demand data.
DemandScoreInRange ==
  (wrapOut.status = "fulfilled" /\ "recentN" \in DOMAIN wrapIn) =>
    /\ wrapOut.patch.demandData.demandScore \in 0..100
    /\ ~wrapIn.llmOk => wrapOut.patch.demandData.demandScore = 0

\* More than 30 recent tweets, all positive and liked: the sum is above 100
\* and the score written is 100.
DemandScoreInRangeWitness ==
  /\ wrapOut.status = "fulfilled" /\ "recentN" \in DOMAIN wrapIn
  /\ wrapIn.recentN > 30 /\ wrapIn.pos > 0 /\ wrapIn.likes > 0
  /\ wrapOut.patch.demandData.demandScore = 100

============================================================================
